---- MODULE Spec2Model ----
(***************************************************************************)
(* Util::JoinStrings of nadvotsky/archible, in its two implementations:    *)
(*   roles/dev/files/cplusplus/src/util/util.cc          (views::join_with) *)
(*   roles/ja-apex-dev/jc-cpp/files/cpp/src/util/util.cc (std::accumulate)  *)
(* A text value is a sequence of one-character strings; the vector of      *)
(* string_views a caller passes is a sequence of text values.  Each caller *)
(* owns its vector and the frame of the call it is in; the only object the *)
(* callers share is the namespace-scope separator kJoinStringsSep.         *)
(***************************************************************************)
EXTENDS Integers, Sequences, FiniteSets

VARIABLES
    kJoinStringsSep,  \* the namespace-scope separator object
    strings,          \* strings[c]: the vector caller c passes by const reference
    todo,             \* todo[c]: the implementations caller c has still to call
    ret,              \* ret[c]: what the calls of caller c returned, in order
    pc,               \* pc[c]: where caller c is inside JoinStrings
    it,               \* it[c]: the join_with iterator ranges::to advances
    str,              \* str[c]: the std::string ranges::to is building
    first,            \* first[c]: the iterator std::accumulate advances
    acc               \* acc[c]: the accumulator of std::accumulate

vars == <<kJoinStringsSep, strings, todo, ret, pc, it, str, first, acc>>

----------------------------------------------------------------------------
(* Bounds and input domains *)

Callers == {1, 2}

Impls == {"join_with", "accumulate"}

\* The text fragments callers pass: the empty text, ordinary text, the
\* separator itself, each separator character alone, and text that ends or
\* starts with a separator character.
Fragments ==
    { <<>>, <<"a">>, <<",">>, <<" ">>, <<",", " ">>, <<"a", ",">>, <<" ", "a">> }

MaxFrags == 3

Inputs == UNION { [1..n -> Fragments] : n \in 0..MaxFrags }

ConcFragments == { <<>>, <<"a">>, <<",", " ">> }

ConcMaxFrags == 2

ConcInputs == UNION { [1..n -> ConcFragments] : n \in 0..ConcMaxFrags }

\* A sequential caller calls twice, with every choice of implementations.
Schedules == { <<i, j>> : i \in Impls, j \in Impls }

----------------------------------------------------------------------------
(* The separator literal *)

SepLiteral_OnlyComma == <<",">>

SepLiteral == <<",", " ">>

----------------------------------------------------------------------------
(* Library operations the two bodies use *)

NoIterator == [outer |-> 0, index |-> 0, pos |-> 0]

Empty_Never(v) == FALSE

\* std::vector::empty
Empty(v) == v = <<>>

\* std::vector::end, as an index: one past the last element
End(v) == Len(v) + 1

StdNext_Same(i) == i

\* std::next(it)
StdNext(i) == i + 1

BinaryOp_NoSep(a, next) == a \o next

BinaryOp_Prepend(a, next) == next \o kJoinStringsSep \o a

BinaryOp_SkipEmpty(a, next) ==
    IF next = <<>> THEN a ELSE a \o kJoinStringsSep \o next

\* the lambda given to std::accumulate
BinaryOp(a, next) == a \o kJoinStringsSep \o next

----------------------------------------------------------------------------
(* The join_with iterator: an outer position in the vector, and an inner   *)
(* position that is either in the pattern (index 0) or in the current      *)
(* element (index 1).                                                      *)

RECURSIVE Satisfy_SkipEmpty(_, _)
Satisfy_SkipEmpty(v, i) ==
    IF i.index = 0
    THEN IF i.pos # Len(kJoinStringsSep) + 1
         THEN i
         ELSE Satisfy_SkipEmpty(v, [outer |-> i.outer, index |-> 1, pos |-> 1])
    ELSE IF i.pos # Len(v[i.outer]) + 1
         THEN i
         ELSE IF i.outer + 1 = End(v)
              THEN [outer |-> i.outer + 1, index |-> 0, pos |-> 0]
              ELSE IF v[i.outer] = <<>>
                   THEN Satisfy_SkipEmpty(v, [outer |-> i.outer + 1, index |-> 1, pos |-> 1])
                   ELSE Satisfy_SkipEmpty(v, [outer |-> i.outer + 1, index |-> 0, pos |-> 1])

\* join_with_view::iterator::satisfy
RECURSIVE Satisfy(_, _)
Satisfy(v, i) ==
    IF i.index = 0
    THEN IF i.pos # Len(kJoinStringsSep) + 1
         THEN i
         ELSE Satisfy(v, [outer |-> i.outer, index |-> 1, pos |-> 1])
    ELSE IF i.pos # Len(v[i.outer]) + 1
         THEN i
         ELSE IF i.outer + 1 = End(v)
              THEN [outer |-> i.outer + 1, index |-> 0, pos |-> 0]
              ELSE Satisfy(v, [outer |-> i.outer + 1, index |-> 0, pos |-> 1])

\* join_with_view::begin: the iterator constructed at the vector's begin
BeginIterator(v) ==
    IF 1 # End(v)
    THEN Satisfy(v, [outer |-> 1, index |-> 1, pos |-> 1])
    ELSE [outer |-> 1, index |-> 0, pos |-> 0]

\* join_with_view::end: the iterator constructed at the vector's end
EndIterator(v) == [outer |-> End(v), index |-> 0, pos |-> 0]

\* iterator::operator*
Deref(v, i) ==
    IF i.index = 0 THEN kJoinStringsSep[i.pos] ELSE v[i.outer][i.pos]

\* iterator::operator++
Increment(v, i) == Satisfy(v, [i EXCEPT !.pos = @ + 1])

----------------------------------------------------------------------------
(* Initial states *)

Idle ==
    /\ kJoinStringsSep = SepLiteral
    /\ ret = [c \in Callers |-> <<>>]
    /\ pc = [c \in Callers |-> "idle"]
    /\ it = [c \in Callers |-> NoIterator]
    /\ str = [c \in Callers |-> <<>>]
    /\ first = [c \in Callers |-> 0]
    /\ acc = [c \in Callers |-> <<>>]

\* One caller (as main and the tests): a vector, and two calls on it.
Init ==
    /\ Idle
    /\ \E v \in Inputs : strings = [c \in Callers |-> IF c = 1 THEN v ELSE <<>>]
    /\ \E s \in Schedules : todo = [c \in Callers |-> IF c = 1 THEN s ELSE <<>>]

\* Two callers of one build, each with a vector of its own, one call each.
ConcInit ==
    /\ Idle
    /\ strings \in [Callers -> ConcInputs]
    /\ \E i \in Impls : todo = [c \in Callers |-> <<i>>]

----------------------------------------------------------------------------
(* Steps of a call *)

\* The frame of the call is destroyed and its value handed to the caller.
Return(c, value) ==
    /\ ret' = [ret EXCEPT ![c] = Append(@, [impl |-> Head(todo[c]), value |-> value])]
    /\ todo' = [todo EXCEPT ![c] = Tail(@)]
    /\ pc' = [pc EXCEPT ![c] = "idle"]
    /\ it' = [it EXCEPT ![c] = NoIterator]
    /\ str' = [str EXCEPT ![c] = <<>>]
    /\ first' = [first EXCEPT ![c] = 0]
    /\ acc' = [acc EXCEPT ![c] = <<>>]
    /\ UNCHANGED <<kJoinStringsSep, strings>>

\* The caller enters JoinStrings of the build it is linked with.
Call(c) ==
    /\ pc[c] = "idle"
    /\ todo[c] # <<>>
    /\ pc' = [pc EXCEPT ![c] =
                IF Head(todo[c]) = "join_with" THEN "jw_begin" ELSE "acc_check"]
    /\ UNCHANGED <<kJoinStringsSep, strings, todo, ret, it, str, first, acc>>

AccEmptyCheck_Unguarded(c) ==
    /\ pc[c] = "acc_check"
    /\ pc' = [pc EXCEPT ![c] = "acc_args"]
    /\ UNCHANGED <<kJoinStringsSep, strings, todo, ret, it, str, first, acc>>

\* if (strings.empty()) return std::string{};
AccEmptyCheck(c) ==
    /\ pc[c] = "acc_check"
    /\ IF Empty(strings[c])
       THEN Return(c, <<>>)
       ELSE /\ pc' = [pc EXCEPT ![c] = "acc_args"]
            /\ UNCHANGED <<kJoinStringsSep, strings, todo, ret, it, str, first, acc>>

AccArgs_MoveFront(c) ==
    /\ pc[c] = "acc_args"
    /\ strings[c] # <<>>
    /\ first' = [first EXCEPT ![c] = StdNext(1)]
    /\ acc' = [acc EXCEPT ![c] = strings[c][1]]
    /\ strings' = [strings EXCEPT ![c][1] = <<>>]
    /\ pc' = [pc EXCEPT ![c] = "acc_loop"]
    /\ UNCHANGED <<kJoinStringsSep, todo, ret, it, str>>

\* The arguments of std::accumulate: std::next(strings.begin()), strings.end(),
\* std::string(strings.front()).  On an empty vector front() and the advance
\* past end() are undefined: the call crashes, or it goes on with whatever
\* text the read produced and hands that back.
AccArgs(c) ==
    /\ pc[c] = "acc_args"
    /\ IF strings[c] = <<>>
       THEN \/ /\ pc' = [pc EXCEPT ![c] = "crashed"]
               /\ UNCHANGED <<first, acc>>
            \/ /\ \E garbage \in Fragments : acc' = [acc EXCEPT ![c] = garbage]
               /\ first' = [first EXCEPT ![c] = End(strings[c])]
               /\ pc' = [pc EXCEPT ![c] = "acc_loop"]
       ELSE /\ first' = [first EXCEPT ![c] = StdNext(1)]
            /\ acc' = [acc EXCEPT ![c] = strings[c][1]]
            /\ pc' = [pc EXCEPT ![c] = "acc_loop"]
    /\ UNCHANGED <<kJoinStringsSep, strings, todo, ret, it, str>>

AccLoop_SharedAcc(c) ==
    /\ pc[c] = "acc_loop"
    /\ IF first[c] # End(strings[c])
       THEN /\ acc' = [d \in Callers |-> BinaryOp(acc[c], strings[c][first[c]])]
            /\ first' = [first EXCEPT ![c] = @ + 1]
            /\ UNCHANGED <<kJoinStringsSep, strings, todo, ret, pc, it, str>>
       ELSE Return(c, acc[c])

\* std::accumulate: for (; first != last; ++first) init = op(init, *first);
\* return init;
AccLoop(c) ==
    /\ pc[c] = "acc_loop"
    /\ IF first[c] # End(strings[c])
       THEN /\ acc' = [acc EXCEPT ![c] = BinaryOp(@, strings[c][first[c]])]
            /\ first' = [first EXCEPT ![c] = @ + 1]
            /\ UNCHANGED <<kJoinStringsSep, strings, todo, ret, pc, it, str>>
       ELSE Return(c, acc[c])

\* strings | std::views::join_with(kJoinStringsSep), and the empty std::string
\* ranges::to starts from
JwBegin(c) ==
    /\ pc[c] = "jw_begin"
    /\ it' = [it EXCEPT ![c] = BeginIterator(strings[c])]
    /\ str' = [str EXCEPT ![c] = <<>>]
    /\ pc' = [pc EXCEPT ![c] = "jw_loop"]
    /\ UNCHANGED <<kJoinStringsSep, strings, todo, ret, first, acc>>

\* ranges::to<std::string>: for (; it != end; ++it) str.push_back(*it);
\* return str;
JwLoop(c) ==
    /\ pc[c] = "jw_loop"
    /\ IF it[c] # EndIterator(strings[c])
       THEN /\ str' = [str EXCEPT ![c] = Append(@, Deref(strings[c], it[c]))]
            /\ it' = [it EXCEPT ![c] = Increment(strings[c], @)]
            /\ UNCHANGED <<kJoinStringsSep, strings, todo, ret, pc, first, acc>>
       ELSE Return(c, str[c])

Next ==
    \E c \in Callers :
        \/ Call(c)
        \/ AccEmptyCheck(c)
        \/ AccArgs(c)
        \/ AccLoop(c)
        \/ JwBegin(c)
        \/ JwLoop(c)

Spec == Init /\ [][Next]_vars

\* A caller that can take a step takes it: a thread that is in a call runs.
FairSpec == Init /\ [][Next]_vars /\ WF_vars(Next)

ConcSpec == ConcInit /\ [][Next]_vars

----------------------------------------------------------------------------
(* What the contract says a join is, stated apart from both bodies *)

ClaimSep == <<",", " ">>

RECURSIVE Joined(_)
Joined(s) ==
    IF s = <<>> THEN <<>>
    ELSE IF Len(s) = 1 THEN s[1]
    ELSE s[1] \o ClaimSep \o Joined(Tail(s))

RECURSIVE SumLen(_)
SumLen(s) == IF s = <<>> THEN 0 ELSE Len(s[1]) + SumLen(Tail(s))

\* the positions at which p occurs in t
Occurrences(t, p) ==
    { i \in 1..(Len(t) - Len(p) + 1) : SubSeq(t, i, i + Len(p) - 1) = p }

\* the calls of caller c that have returned
Returned(c) == 1..Len(ret[c])

ReturnedBy(c, impl) == \E k \in Returned(c) : ret[c][k].impl = impl

BothReturned(c) == ReturnedBy(c, "join_with") /\ ReturnedBy(c, "accumulate")

AllReturned == \A c \in Callers : pc[c] = "idle" /\ todo[c] = <<>>

----------------------------------------------------------------------------
(* Claims *)

\* C1: for a non-empty vector f1..fn either implementation returns exactly
\* f1 + ", " + f2 + ", " + ... + fn: the fragments in input order, the
\* separator strictly between adjacent fragments, none leading or trailing.
C1_JoinsInOrder ==
    \A c \in Callers : \A k \in Returned(c) :
        strings[c] # <<>> => ret[c][k].value = Joined(strings[c])

C1_Witness ==
    /\ strings[1] = << <<"a">>, <<"a", ",">>, <<" ", "a">> >>
    /\ BothReturned(1)
    /\ ret[1][1].value = <<"a", ",", " ", "a", ",", ",", " ", " ", "a">>

\* C2: on the empty vector either implementation returns the empty string.
C2_EmptyInput ==
    \A c \in Callers : \A k \in Returned(c) :
        strings[c] = <<>> => ret[c][k].value = <<>>

C2_Witness ==
    /\ strings[1] = <<>>
    /\ BothReturned(1)

\* C3: on a vector of exactly one fragment either implementation returns that
\* fragment verbatim, with no separator, also when the fragment is empty.
C3_SingleFragment ==
    \A c \in Callers : \A k \in Returned(c) :
        Len(strings[c]) = 1 => ret[c][k].value = strings[c][1]

C3_Witness ==
    /\ strings[1] = << <<>> >>
    /\ BothReturned(1)

\* C4: an empty fragment is kept as an element wherever it stands: n fragments
\* get n-1 separators however many of them are empty, and ["", "a"] gives
\* ", a".
C4_EmptyFragmentsKept ==
    \A c \in Callers : \A k \in Returned(c) :
        (\E p \in 1..Len(strings[c]) : strings[c][p] = <<>>) =>
            /\ Len(ret[c][k].value) =
                   SumLen(strings[c]) + Len(ClaimSep) * (Len(strings[c]) - 1)
            /\ ret[c][k].value = Joined(strings[c])
            /\ strings[c] = << <<>>, <<"a">> >> => ret[c][k].value = <<",", " ", "a">>

C4_Witness ==
    /\ strings[1] = << <<>>, <<>>, <<>> >>
    /\ BothReturned(1)
    /\ ret[1][2].value = <<",", " ", ",", " ">>

\* C5: when no fragment of a vector of n >= 1 fragments contains ", ", the
\* result contains exactly n-1 occurrences of ", ".
C5_SeparatorCount ==
    \A c \in Callers : \A k \in Returned(c) :
        ( /\ Len(strings[c]) >= 1
          /\ \A p \in 1..Len(strings[c]) : Occurrences(strings[c][p], ClaimSep) = {} )
        => Cardinality(Occurrences(ret[c][k].value, ClaimSep)) = Len(strings[c]) - 1

C5_Witness ==
    /\ strings[1] = << <<"a", ",">>, <<" ", "a">>, <<",">> >>
    /\ BothReturned(1)

\* C6: on the same vector the join_with body and the accumulate body return
\* the same text.
C6_SameResult ==
    \A c \in Callers : \A j, k \in Returned(c) :
        ret[c][j].impl # ret[c][k].impl => ret[c][j].value = ret[c][k].value

C6_Witness ==
    /\ strings[1] = << <<",", " ">>, <<>>, <<"a">> >>
    /\ Len(ret[1]) = 2
    /\ ret[1][1].impl # ret[1][2].impl

C7_SameTwice ==
    \A c \in Callers : \A j, k \in Returned(c) :
        ret[c][j].impl = ret[c][k].impl => ret[c][j].value = ret[c][k].value

C7_Frame ==
    /\ strings' = strings
    /\ kJoinStringsSep' = kJoinStringsSep

\* C7: two calls of one implementation on the same vector return the same
\* text, and no step of a call changes the vector or the separator.
C7_NoSideEffects == []C7_SameTwice /\ [][C7_Frame]_vars

C7_Witness ==
    /\ Len(strings[1]) = 3
    /\ Len(ret[1]) = 2
    /\ ret[1][1].impl = "accumulate"
    /\ ret[1][2].impl = "accumulate"

C8_NoError ==
    \A c \in Callers :
        /\ pc[c] # "crashed"
        /\ pc[c] = "acc_args" => strings[c] # <<>>

\* C8: every call returns a text value: no call crashes, the accumulate body
\* never evaluates front() or std::next(begin()) on an empty vector, and
\* every call a caller makes comes back.
C8_Total == []C8_NoError /\ <>AllReturned

C8_Witness ==
    /\ strings[1] = <<>>
    /\ ReturnedBy(1, "accumulate")
    /\ AllReturned

\* C9: with two callers in JoinStrings at once, each on a vector of its own,
\* every interleaving gives each caller the join of its own vector, and the
\* separator they share is never written.
C9_Concurrent ==
    /\ kJoinStringsSep = ClaimSep
    /\ \A c \in Callers : \A k \in Returned(c) :
           ret[c][k].value = Joined(strings[c])

C9_Witness ==
    /\ Len(strings[1]) = 2
    /\ Len(strings[2]) = 2
    /\ strings[1] # strings[2]
    /\ Len(ret[1]) = 1
    /\ pc[2] = "acc_loop"
    /\ first[2] = 3

\* C10: inside std::accumulate the accumulator starts as f1, and when the fold
\* stands before fragment k+1 it is the join of the first k fragments; the
\* fold's position runs over 2..n+1.
C10_FoldInvariant ==
    \A c \in Callers :
        pc[c] = "acc_loop" =>
            /\ first[c] \in 2..(Len(strings[c]) + 1)
            /\ first[c] = 2 => acc[c] = strings[c][1]
            /\ acc[c] = Joined(SubSeq(strings[c], 1, first[c] - 1))

C10_Witness ==
    /\ strings[1] = << <<"a">>, <<",">>, <<" ", "a">> >>
    /\ pc[1] = "acc_loop"
    /\ first[1] = 3
    /\ acc[1] = <<"a", ",", " ", ",">>

====
